---- MODULE Spec2Model ----
(***************************************************************************)
(* A model of the factor pipeline of soaringWhite/lib:                     *)
(*   factor_calculator.py  adjust_price_data, calculate_returns,           *)
(*                          calculate_factors, FactorCalculator            *)
(*   factor_analysis.py    FactorAnalysis (daily_grouping,                 *)
(*                          calculate_daily_group_returns,                 *)
(*                          calculate_cumulative_returns,                  *)
(*                          analyze_daily_group, analyze_all_factors)      *)
(*                                                                         *)
(* Numbers are exact rationals <<n, d>> in lowest terms with d > 0; the    *)
(* missing marker (NaN) is the empty tuple.  Floating-point rounding is    *)
(* not modelled.  A DataFrame is a record of its column names, its index   *)
(* labels and its rows (each row a function from column name to cell).     *)
(***************************************************************************)
EXTENDS Integers, Sequences, FiniteSets, TLC

VARIABLES
    factors_df,       \* FactorAnalysis.factors_df (the shared, mutated table)
    fa_call,          \* the last FactorAnalysis call: its name and arguments
    fa_err,           \* the exception the last FactorAnalysis call raised, or "none"
    fa_out,           \* the table the last FactorAnalysis call returned / computed
    analyzed,         \* the columns analyze_daily_group was invoked on by the last call
    self_data,        \* FactorCalculator.data (the raw panel)
    self_holding_days, \* FactorCalculator.holding_days
    self_adjust_price, \* FactorCalculator.adjust_price
    plugins,          \* the modules found in the factors directory, in listing order
    todo,             \* the codes the loop of calculate_factors has not reached yet
    stock_frames,     \* stock_data of each processed stock, as left by the loop body
    factors_all_stocks, \* the per-stock factor tables collected so far
    calc_result,      \* the table FactorCalculator.calculate_factors returned
    calc_pc,          \* "loop", "done" or "raised"
    calc_err          \* the exception calculate_factors raised, or "none"

fa_vars == <<factors_df, fa_call, fa_err, fa_out, analyzed>>

calc_vars == <<self_data, self_holding_days, self_adjust_price, plugins, todo, stock_frames,
               factors_all_stocks, calc_result, calc_pc, calc_err>>

vars == <<fa_vars, calc_vars>>

----------------------------------------------------------------------------
(* Bounds of the model *)

MaxRows == 3
MaxVal == 3
MaxQ == 3
MaxDays == 3
MaxRet == 1
MaxPanelRows == 3
MaxClose == 2
MaxH == 2

(* Program constants *)

DefaultQ == 5
DefaultHoldingDays == 5

Dates == {1, 2}

----------------------------------------------------------------------------
(* Exact arithmetic with NaN propagation (numpy / pandas float semantics) *)

NaN == << >>

IsNaN(v) == v = NaN

Abs(n) == IF n < 0 THEN -n ELSE n

RECURSIVE GCD(_, _)
GCD(a, b) == IF b = 0 THEN a ELSE GCD(b, a % b)

Rat(n, d) ==
    LET s == IF d < 0 THEN -1 ELSE 1
        g == GCD(Abs(n), Abs(d))
    IN  <<(s * n) \div g, (s * d) \div g>>

Num(v) == Rat(v, 1)

RAdd(a, b) == IF IsNaN(a) \/ IsNaN(b) THEN NaN ELSE Rat(a[1] * b[2] + b[1] * a[2], a[2] * b[2])

RSub(a, b) == IF IsNaN(a) \/ IsNaN(b) THEN NaN ELSE Rat(a[1] * b[2] - b[1] * a[2], a[2] * b[2])

RMul(a, b) == IF IsNaN(a) \/ IsNaN(b) THEN NaN ELSE Rat(a[1] * b[1], a[2] * b[2])

\* a / b for b # 0 (callers guard b = 0)
RDiv(a, b) == IF IsNaN(a) \/ IsNaN(b) THEN NaN ELSE Rat(a[1] * b[2], a[2] * b[1])

\* comparisons with NaN are False, as in IEEE arithmetic
RLess(a, b) == ~IsNaN(a) /\ ~IsNaN(b) /\ a[1] * b[2] < b[1] * a[2]

RLeq(a, b) == ~IsNaN(a) /\ ~IsNaN(b) /\ a[1] * b[2] <= b[1] * a[2]

----------------------------------------------------------------------------
(* Series helpers *)

\* F applied to the value of v, with v evaluated once
Let(v, F(_)) == CHOOSE y \in {F(w) : w \in {v}} : TRUE

Range(s) == {s[i] : i \in 1..Len(s)}

RECURSIVE SetToSeq(_)
SetToSeq(S) ==
    IF S = {} THEN << >>
    ELSE LET m == CHOOSE m \in S : \A o \in S : m <= o
         IN  <<m>> \o SetToSeq(S \ {m})

\* ascending sort of a sequence of non-missing numbers (duplicates kept)
RECURSIVE SortAsc(_)
SortAsc(s) ==
    IF s = << >> THEN << >>
    ELSE LET i == CHOOSE i \in 1..Len(s) : \A j \in 1..Len(s) : RLeq(s[i], s[j])
         IN  <<s[i]>> \o SortAsc([k \in 1..(Len(s) - 1) |-> IF k < i THEN s[k] ELSE s[k + 1]])

\* Series.dropna()
DropNa(x) == SelectSeq(x, LAMBDA v : ~IsNaN(v))

\* Series.nunique(): distinct values, NaN not counted
NUnique(x) == Cardinality(Range(x) \ {NaN})

RECURSIVE AscOfSet(_)
AscOfSet(S) ==
    IF S = {} THEN << >>
    ELSE LET m == CHOOSE m \in S : \A o \in S : RLeq(m, o)
         IN  <<m>> \o AscOfSet(S \ {m})

\* np.sort(x.unique()): Series.unique() keeps NaN as a value, np.sort puts it last
SortedUnique(x) == AscOfSet(Range(x) \ {NaN}) \o (IF NaN \in Range(x) THEN <<NaN>> ELSE << >>)

\* f'returns_{holding_days}d'
ReturnsCol(holding_days) ==
    <<"returns_1d", "returns_2d", "returns_3d", "returns_4d", "returns_5d", "returns_6d">>[holding_days]

----------------------------------------------------------------------------
(* factor_calculator.py.  A frame carries its index labels (0-based row     *)
(* labels of the panel for a stock's slice, 0..n-1 for a new frame)          *)

IFrame(index, columns, rows) == [index |-> index, columns |-> columns, rows |-> rows]

EmptyFrame == IFrame(<< >>, << >>, << >>)

\* RangeIndex(n)
RangeIndex(n) == [i \in 1..n |-> i - 1]

\* one column of a frame as a Series: its index and its values
Column(frame, col) ==
    [index |-> frame.index, values |-> [i \in 1..Len(frame.rows) |-> frame.rows[i][col]]]

\* a Series' value at a label, NaN when the label is absent (reindex)
At(series, label) ==
    IF \E i \in 1..Len(series.index) : series.index[i] = label
    THEN series.values[CHOOSE i \in 1..Len(series.index) : series.index[i] = label]
    ELSE NaN

\* frame[col] = series: aligned on the frame's index; a frame without rows takes
\* the index of a non-empty Series (DataFrame._ensure_valid_index)
SetColumn(frame, col, series) ==
    LET adopt == Len(frame.index) = 0 /\ Len(series.index) > 0
        index == IF adopt THEN series.index ELSE frame.index
        old(i) == IF adopt THEN [c \in Range(frame.columns) |-> NaN] ELSE frame.rows[i]
    IN  IFrame(index,
               IF col \in Range(frame.columns) THEN frame.columns ELSE Append(frame.columns, col),
               [i \in 1..Len(index) |-> (col :> At(series, index[i])) @@ old(i)])

\* frame[col] = scalar
SetScalar(frame, col, v) ==
    IFrame(frame.index,
           IF col \in Range(frame.columns) THEN frame.columns ELSE Append(frame.columns, col),
           [i \in 1..Len(frame.rows) |-> (col :> v) @@ frame.rows[i]])

\* one group of data.groupby('code'): the rows of a code, in panel order, with their labels
StockData(panel, code) ==
    Let(SetToSeq({i \in 1..Len(panel.rows) : panel.rows[i]["code"] = code}), LAMBDA pos :
        IFrame([k \in 1..Len(pos) |-> panel.index[pos[k]]], panel.columns,
               [k \in 1..Len(pos) |-> panel.rows[pos[k]]]))

PriceColumns == <<"open", "high", "low", "close">>

\* adjust_price_data: every price column times adj_factor / adj_factor.iloc[-1]
adjust_price_data(stock_data) ==
    IF "adj_factor" \notin Range(stock_data.columns)
    THEN [raised |-> "KeyError", frame |-> stock_data]
    ELSE LET n == Len(stock_data.rows)
             adj_factor(i) == RDiv(stock_data.rows[i]["adj_factor"],
                                   stock_data.rows[n]["adj_factor"])
         IN  [raised |-> "none",
              frame |-> [stock_data EXCEPT !.rows =
                           [i \in 1..n |->
                              [c \in DOMAIN stock_data.rows[i] |->
                                  IF c \in Range(PriceColumns)
                                  THEN RMul(stock_data.rows[i][c], adj_factor(i))
                                  ELSE stock_data.rows[i][c]]]]]

\* a return that is 0 where no future close exists
calculate_returns_Zero(stock_data, holding) ==
    [i \in 1..Len(stock_data.rows) |->
        IF i + holding > Len(stock_data.rows) THEN Num(0)
        ELSE RDiv(RSub(stock_data.rows[i + holding]["close"], stock_data.rows[i]["close"]),
                  stock_data.rows[i]["close"])]

\* calculate_returns: (close.shift(-holding_days) - close) / close, by position
calculate_returns(stock_data, holding) ==
    [i \in 1..Len(stock_data.rows) |->
        LET future_close == IF i + holding > Len(stock_data.rows) THEN NaN
                            ELSE stock_data.rows[i + holding]["close"]
        IN  RDiv(RSub(future_close, stock_data.rows[i]["close"]), stock_data.rows[i]["close"])]

\* what a plugin's calculate_factor returns for a stock: a conforming plugin
\* ("ok") a Series on the stock's index (here the close), "short" the same
\* Series without its last row, "long_list" a plain list one value too long
PluginOutput(kind, stock_data) ==
    LET n == Len(stock_data.rows)
        close == [i \in 1..n |-> stock_data.rows[i]["close"]]
    IN  CASE kind = "ok" -> [series |-> TRUE, index |-> stock_data.index, values |-> close]
          [] kind = "short" -> [series |-> TRUE,
                                index |-> SubSeq(stock_data.index, 1, n - 1),
                                values |-> SubSeq(close, 1, n - 1)]
          [] OTHER -> [series |-> FALSE, index |-> RangeIndex(n + 1),
                       values |-> Append(close, Num(0))]

\* pd.DataFrame(factors): the index is the union of the Series' indexes, or
\* 0..len-1 when only lists are given; lists of different lengths, or a list
\* whose length is not the index length, raise ValueError; a Series is
\* reindexed (missing labels become NaN)
DataFrameOf(names, outs) ==
    LET all  == 1..Len(outs)
        ser  == {k \in all : outs[k].series}
        raw  == all \ ser
        lens == {Len(outs[k].values) : k \in raw}
        union == SetToSeq(UNION {Range(outs[k].index) : k \in ser})
        index == IF ser # {} THEN union
                 ELSE IF raw # {} THEN RangeIndex(CHOOSE l \in lens : TRUE)
                 ELSE << >>
    IN  IF Cardinality(lens) > 1 \/ (raw # {} /\ ser # {} /\ lens # {Len(union)})
        THEN [raised |-> "ValueError", frame |-> EmptyFrame]
        ELSE [raised |-> "none",
              frame |-> IFrame(index, names,
                               [i \in 1..Len(index) |->
                                  [c \in Range(names) |->
                                      LET k == CHOOSE k \in all : names[k] = c
                                      IN  IF outs[k].series THEN At(outs[k], index[i])
                                          ELSE outs[k].values[i]]])]

\* calculate_factors: import every module of the directory and call its
\* calculate_factor; a module without it raises AttributeError
calculate_factors(stock_data, plugin_list) ==
    IF \E k \in 1..Len(plugin_list) : plugin_list[k].kind = "no_entry"
    THEN [raised |-> "AttributeError", frame |-> EmptyFrame]
    ELSE DataFrameOf([k \in 1..Len(plugin_list) |-> plugin_list[k].name],
                     [k \in 1..Len(plugin_list) |-> PluginOutput(plugin_list[k].kind, stock_data)])

\* FactorCalculator._calculate_factors_for_stock: returns the exception,
\* stock_data with its returns column, and the stock's factor table
calculate_factors_for_stock(stock_data, holding, plugin_list) ==
    IF "close" \notin Range(stock_data.columns)
    THEN [raised |-> "KeyError", stock_data |-> stock_data, factors |-> EmptyFrame]
    ELSE LET returns_col == ReturnsCol(holding) IN
         Let(SetColumn(stock_data, returns_col,
                       [index |-> stock_data.index, values |-> calculate_returns(stock_data, holding)]),
             LAMBDA sd :
         Let(calculate_factors(sd, plugin_list), LAMBDA f :
             IF f.raised # "none"
             THEN [raised |-> f.raised, stock_data |-> sd, factors |-> EmptyFrame]
             ELSE IF "date" \notin Range(sd.columns)
             THEN [raised |-> "KeyError", stock_data |-> sd, factors |-> EmptyFrame]
             ELSE [raised |-> "none", stock_data |-> sd,
                   factors |-> SetColumn(SetColumn(f.frame, returns_col, Column(sd, returns_col)),
                                         "date", Column(sd, "date"))]))

\* lines 93-101: the loop body of FactorCalculator.calculate_factors for one code
StockStep(panel, code, adjust, holding, plugin_list) ==
    Let(IF adjust THEN adjust_price_data(StockData(panel, code))
        ELSE [raised |-> "none", frame |-> StockData(panel, code)], LAMBDA a :
        IF a.raised # "none"
        THEN [raised |-> a.raised, stock_data |-> a.frame, factors |-> EmptyFrame]
        ELSE Let(calculate_factors_for_stock(a.frame, holding, plugin_list), LAMBDA r :
                 [r EXCEPT !.factors = IF r.raised = "none"
                                       THEN SetScalar(r.factors, "code", code)
                                       ELSE r.factors]))

\* pd.concat(factors_all_stocks).reset_index(drop=True)
ConcatReset(frames) ==
    LET RECURSIVE Rows(_)
        Rows(k) == IF k = 0 THEN << >> ELSE Rows(k - 1) \o frames[k].rows
    IN  IF frames = << >> THEN [raised |-> "ValueError", frame |-> EmptyFrame]
        ELSE Let(Rows(Len(frames)), LAMBDA rows :
                 [raised |-> "none",
                  frame |-> IFrame(RangeIndex(Len(rows)), frames[1].columns, rows)])

----------------------------------------------------------------------------
(* FactorCalculator.calculate_factors as a loop over the codes *)

Stocks == {1, 2}

PanelColumns == <<"code", "date", "open", "close", "volume", "adj_factor">>

\* a raw panel of n rows; the dates ascend along the rows, or descend when desc
Panel(n, code, close, adj, desc) ==
    IFrame(RangeIndex(n), PanelColumns,
           [i \in 1..n |->
              [code |-> code[i], date |-> IF desc THEN n + 1 - i ELSE i,
               open |-> Num(close[i] + 1), close |-> Num(close[i]),
               volume |-> Num(100), adj_factor |-> Num(adj[i])]])

\* no FactorCalculator run in this specification
CalcIdle ==
    /\ self_data = EmptyFrame
    /\ self_holding_days = 1
    /\ self_adjust_price = FALSE
    /\ plugins = << >>
    /\ todo = << >>
    /\ stock_frames = << >>
    /\ factors_all_stocks = << >>
    /\ calc_result = EmptyFrame
    /\ calc_pc = "idle"
    /\ calc_err = "none"

\* FactorCalculator(data, holding_days, adjust_price) constructed and
\* calculate_factors entered: groupby('code') yields the codes in ascending order
CalcStart(panel, holding, adjust, plugin_list) ==
    /\ self_data = panel
    /\ self_holding_days = holding
    /\ self_adjust_price = adjust
    /\ plugins = plugin_list
    /\ todo = SetToSeq({panel.rows[i]["code"] : i \in 1..Len(panel.rows)})
    /\ stock_frames = << >>
    /\ factors_all_stocks = << >>
    /\ calc_result = EmptyFrame
    /\ calc_pc = "loop"
    /\ calc_err = "none"

\* no FactorAnalysis object in this specification
FaIdle ==
    /\ factors_df = [columns |-> << >>, rows |-> << >>, group_dtype |-> "none", ncat |-> 0]
    /\ fa_call = [op |-> "none", factor_col |-> "", holding_days |-> 0, q |-> 0]
    /\ fa_err = "none"
    /\ fa_out = [columns |-> << >>, rows |-> << >>, group_dtype |-> "none", ncat |-> 0]
    /\ analyzed = << >>

\* one pass of the loop body (lines 93-101) for the next code
CalcStock ==
    /\ calc_pc = "loop"
    /\ todo # << >>
    /\ \E r \in {StockStep(self_data, Head(todo), self_adjust_price, self_holding_days, plugins)} :
          IF r.raised = "none"
          THEN /\ todo' = Tail(todo)
               /\ stock_frames' = Append(stock_frames, r.stock_data)
               /\ factors_all_stocks' = Append(factors_all_stocks, r.factors)
               /\ UNCHANGED <<calc_pc, calc_err>>
          ELSE /\ calc_pc' = "raised"
               /\ calc_err' = r.raised
               /\ UNCHANGED <<todo, stock_frames, factors_all_stocks>>
    /\ UNCHANGED <<self_data, self_holding_days, self_adjust_price, plugins, calc_result>>
    /\ UNCHANGED fa_vars

\* line 104: concatenate the per-stock tables and return
CalcConcat ==
    /\ calc_pc = "loop"
    /\ todo = << >>
    /\ \E r \in {ConcatReset(factors_all_stocks)} :
          /\ calc_result' = r.frame
          /\ calc_err' = r.raised
          /\ calc_pc' = IF r.raised = "none" THEN "done" ELSE "raised"
    /\ UNCHANGED <<self_data, self_holding_days, self_adjust_price, plugins, todo,
                   stock_frames, factors_all_stocks>>
    /\ UNCHANGED fa_vars

CalcNext == CalcStock \/ CalcConcat

OkPlugin == [name |-> "f", kind |-> "ok"]

\* panels in ascending date order, prices and holding periods varied; the
\* adjustment factors are all 1, or alternate 1, 2, with adjust_price set
ReturnsInit ==
    /\ \E n \in 0..MaxPanelRows, holding \in 1..MaxH, adjust \in {"off", "flat", "alternating"} :
          \E code \in [1..n -> Stocks], close \in [1..n -> 1..MaxClose] :
              CalcStart(Panel(n, code, close,
                              [i \in 1..n |-> IF adjust = "alternating" THEN 1 + (i % 2) ELSE 1],
                              FALSE),
                        holding, adjust # "off", <<OkPlugin>>)
    /\ FaIdle

SpecReturns == ReturnsInit /\ [][CalcNext]_vars

AdjFactors == {1, 2}

\* panels in ascending or descending date order with varied adjustment factors
AdjustInit ==
    /\ \E n \in 0..MaxPanelRows, desc \in BOOLEAN, adjust \in BOOLEAN :
          \E code \in [1..n -> Stocks], close \in [1..n -> 1..MaxClose], adj \in [1..n -> AdjFactors] :
              CalcStart(Panel(n, code, close, adj, desc), 1, adjust, <<OkPlugin>>)
    /\ FaIdle

SpecAdjust == AdjustInit /\ [][CalcNext]_vars

PluginKinds == {"ok", "no_entry", "short", "long_list"}

\* the factors directory holds up to two modules, conforming or not
PluginLists ==
    {<< >>}
    \cup {<<[name |-> "f", kind |-> k]>> : k \in PluginKinds}
    \cup {<<[name |-> "f", kind |-> k1], [name |-> "g", kind |-> k2]>> :
             k1 \in PluginKinds, k2 \in PluginKinds}

PluginInit ==
    /\ \E n \in 0..MaxPanelRows, plugin_list \in PluginLists :
          \E code \in [1..n -> Stocks], close \in [1..n -> 1..MaxClose] :
              CalcStart(Panel(n, code, close, [i \in 1..n |-> 1], FALSE), 1, FALSE, plugin_list)
    /\ FaIdle

SpecPlugins == PluginInit /\ [][CalcNext]_vars

----------------------------------------------------------------------------
(* pandas / numpy primitives used by FactorAnalysis.daily_grouping *)

\* np.linspace(lo, hi, q + 1): q + 1 evenly spaced edges (NaN end points give NaN edges)
Linspace(lo, hi, q) ==
    [k \in 1..(q + 1) |-> RAdd(lo, RDiv(RMul(Num(k - 1), RSub(hi, lo)), Num(q)))]

\* order-preserving removal of repeated values (pandas algos.unique)
RECURSIVE Dedup(_)
Dedup(s) ==
    IF s = << >> THEN << >>
    ELSE LET r == Dedup(SubSeq(s, 1, Len(s) - 1))
         IN  IF s[Len(s)] \in Range(r) THEN r ELSE Append(r, s[Len(s)])

\* Series.quantile(k / q) of the ascending non-missing values s, linear interpolation
Quantile(s, k, q) ==
    LET pos == k * (Len(s) - 1)
        lo  == pos \div q
        r   == pos % q
    IN  IF r = 0 THEN s[lo + 1]
        ELSE RAdd(s[lo + 1], RMul(Rat(r, q), RSub(s[lo + 2], s[lo + 1])))

\* the q + 1 quantile edges pd.qcut computes from the non-missing values of x
QuantileBins(x, q) ==
    Let(SortAsc(DropNa(x)), LAMBDA s : [k \in 1..(q + 1) |-> Quantile(s, k - 1, q)])

\* pandas.core.reshape.tile._bins_to_cuts with right=True, duplicates='drop' and
\* labels = range(1, nlabels + 1): drops repeated edges (unless there are exactly
\* two), raises when the labels are not one fewer than the edges, and labels
\* each value with the 1-based index of its interval (lo, hi]; a value outside
\* every interval, or a missing value, gets no label
BinsToCuts(x, bins0, nlabels, include_lowest) ==
    Let(LET ub == Dedup(bins0) IN IF Len(ub) < Len(bins0) /\ Len(bins0) # 2 THEN ub ELSE bins0,
        LAMBDA bins :
            LET id(v) == IF IsNaN(v) THEN Len(bins)
                         ELSE IF include_lowest /\ v = bins[1] THEN 1
                         ELSE Cardinality({j \in 1..Len(bins) : RLess(bins[j], v)})
                label(v) == Let(id(v), LAMBDA k :
                                IF IsNaN(v) \/ k = Len(bins) \/ k = 0 THEN NaN ELSE Num(k))
            IN  IF nlabels # Len(bins) - 1
                THEN [raised |-> "ValueError", labels |-> << >>, categorical |-> FALSE]
                ELSE [raised |-> "none",
                      labels |-> [i \in 1..Len(x) |-> label(x[i])],
                      categorical |-> TRUE])

\* pd.cut(x, bins=bins, labels=range(1, len(bins)), duplicates='drop')
PdCut(x, bins) == BinsToCuts(x, bins, Len(bins) - 1, FALSE)

\* a qcut whose lowest edge is open: the minimum falls outside every interval
PdQcut_NoLowest(x, q) == BinsToCuts(x, QuantileBins(x, q), q, FALSE)

\* pd.qcut(x, q=q, labels=range(1, q + 1), duplicates='drop')
PdQcut(x, q) == BinsToCuts(x, QuantileBins(x, q), q, TRUE)

\* pd.Series(1, index=x.index)
AllOnes(x) ==
    [raised |-> "none", labels |-> [i \in 1..Len(x) |-> Num(1)], categorical |-> FALSE]

\* daily_grouping.safe_qcut: x is one date's factor values in row order
safe_qcut(x, q) ==
    IF NUnique(x) < q
    THEN Let(SortedUnique(x), LAMBDA unique_values :
             LET \* ndarray.min() / .max() are NaN as soon as one element is NaN
                 lo == IF NaN \in Range(unique_values) THEN NaN ELSE unique_values[1]
                 hi == IF NaN \in Range(unique_values) THEN NaN
                       ELSE unique_values[Len(unique_values)]
             IN  IF Len(unique_values) = 1 THEN AllOnes(x)
                 ELSE Let(SortedUnique(Linspace(lo, hi, q)), LAMBDA bins :
                          IF Len(bins) - 1 < q THEN AllOnes(x) ELSE PdCut(x, bins)))
    ELSE PdQcut(x, q)

----------------------------------------------------------------------------
(* FactorAnalysis *)

\* the positions of the rows of one date, ascending (one group of groupby('date'))
RowsOfDate(rows, d) == SetToSeq({i \in 1..Len(rows) : rows[i]["date"] = d})

\* one date's values of a column, in row order
SeriesOfDate(rows, d, col) ==
    LET idx == RowsOfDate(rows, d) IN [k \in 1..Len(idx) |-> rows[idx[k]][col]]

DatesOf(rows) == {rows[i]["date"] : i \in 1..Len(rows)}

\* FactorAnalysis.daily_grouping: groupby('date')[factor_col].transform(safe_qcut)
\* written into the 'group' column of the shared table.  An exception raised by
\* safe_qcut on any date leaves the table as it was.
daily_grouping(df, factor_col, q) ==
    Let([d \in DatesOf(df.rows) |-> safe_qcut(SeriesOfDate(df.rows, d, factor_col), q)],
        LAMBDA res :
            LET rows == df.rows
                rank(i) == Cardinality({j \in 1..i : rows[j]["date"] = rows[i]["date"]})
            IN  IF \E d \in DOMAIN res : res[d].raised # "none"
                THEN [raised |-> "ValueError", df |-> df]
                ELSE [raised |-> "none",
                      df |-> [columns |-> IF "group" \in Range(df.columns) THEN df.columns
                                          ELSE Append(df.columns, "group"),
                              rows |-> [i \in 1..Len(rows) |->
                                          ("group" :> res[rows[i]["date"]].labels[rank(i)]) @@ rows[i]],
                              \* concat of the per-date results keeps the categorical dtype
                              \* (categories 1..q) only when every date produced one
                              group_dtype |-> IF rows # << >> /\ \A d \in DOMAIN res : res[d].categorical
                                              THEN "category" ELSE "object",
                              ncat |-> q]])

Frame(columns, rows) == [columns |-> columns, rows |-> rows, group_dtype |-> "none", ncat |-> 0]

\* a row's group label (missing when the table has no group column yet)
GroupOf(row) == IF "group" \in DOMAIN row THEN row["group"] ELSE NaN

\* the labels range(1, q + 1)
Labels(q) == {Num(g) : g \in 1..q}

NoTable == Frame(<< >>, << >>)

NoCall == [op |-> "none", factor_col |-> "", holding_days |-> 0, q |-> 0]

\* q values a caller passes: the small ones and the default
QChoices == (1..MaxQ) \cup {DefaultQ}

FactorVals == {Num(v) : v \in 1..MaxVal} \cup {NaN}

\* the cross-section of spec section 8: five ascending distinct values on one date
TestVector == Frame(<<"f", "date">>, [i \in 1..5 |-> [f |-> Num(i), date |-> 1]])

GroupInit ==
    /\ \/ \E n \in 0..MaxRows :
            \E rows \in [1..n -> [f : FactorVals, date : Dates]] :
                factors_df = Frame(<<"f", "date">>, rows)
       \/ factors_df = TestVector
    /\ fa_call = NoCall
    /\ fa_err = "none"
    /\ fa_out = NoTable
    /\ analyzed = << >>
    /\ CalcIdle

\* a caller invokes daily_grouping(factor_col, q) on the freshly constructed object
DailyGrouping ==
    \E q \in QChoices :
        \E r \in {daily_grouping(factors_df, "f", q)} :
            /\ fa_call = NoCall
            /\ factors_df' = r.df
            /\ fa_err' = r.raised
            /\ fa_call' = [op |-> "daily_grouping", factor_col |-> "f", holding_days |-> 0, q |-> q]
            /\ fa_out' = NoTable
            /\ analyzed' = << >>
            /\ UNCHANGED calc_vars

GroupNext == DailyGrouping

SpecGroup == GroupInit /\ [][GroupNext]_vars

----------------------------------------------------------------------------
(* FactorAnalysis: group returns and cumulative returns *)

\* groupby('code')['close'].pct_change(periods=holding_days) * 100, in row order
PctChange100(rows, holding_days) ==
    [i \in 1..Len(rows) |->
        LET same == SetToSeq({j \in 1..i : rows[j]["code"] = rows[i]["code"]})
            k    == Len(same)
        IN  IF k <= holding_days THEN NaN
            ELSE RMul(RSub(RDiv(rows[i]["close"], rows[same[k - holding_days]]["close"]), Num(1)),
                      Num(100))]

RECURSIVE SumSeq(_)
SumSeq(s) == IF s = << >> THEN Num(0) ELSE RAdd(s[1], SumSeq(Tail(s)))

\* Series.mean(): the mean of the non-missing values, NaN when there is none
Mean(x) ==
    LET v == DropNa(x)
    IN  IF v = << >> THEN NaN ELSE RDiv(SumSeq(v), Num(Len(v)))

\* groupby(['date', 'group'], observed=False)[returns_col].mean().reset_index():
\* one record per key in (date, group) order.  Rows without a group label belong
\* to no key.  A categorical group column with observed=False yields every
\* (date, category) pair; otherwise the keys are the pairs that occur.
GroupByMean(df, returns_col) ==
    LET rows == df.rows
        members(kd) == SelectSeq([i \in 1..Len(rows) |-> i],
                           LAMBDA i : rows[i]["date"] = kd[1] /\ GroupOf(rows[i]) = kd[2])
        seen == {GroupOf(rows[i]) : i \in 1..Len(rows)} \ {NaN}
    IN  Let(<<SetToSeq(DatesOf(rows)),
              AscOfSet(IF df.group_dtype = "category" THEN seen \cup Labels(df.ncat) ELSE seen)>>,
            LAMBDA dl :
                LET dates  == dl[1]
                    labels == dl[2]
                    nl     == Len(labels)
                    all    == [k \in 1..(Len(dates) * nl) |->
                                  <<dates[((k - 1) \div nl) + 1], labels[((k - 1) % nl) + 1]>>]
                IN  Let(IF df.group_dtype = "category" THEN all
                        ELSE SelectSeq(all, LAMBDA kd : members(kd) # << >>),
                        LAMBDA keys :
                            [columns |-> <<"date", "group", returns_col>>,
                             rows |-> [k \in 1..Len(keys) |->
                                         Let(members(keys[k]), LAMBDA m :
                                             ("date" :> keys[k][1]) @@ ("group" :> keys[k][2]) @@
                                             (returns_col :>
                                                Mean([j \in 1..Len(m) |-> rows[m[j]][returns_col]])))],
                             group_dtype |-> df.group_dtype,
                             ncat |-> df.ncat]))

\* a group column of categorical dtype used as the factor: whether pandas
\* bins the categories as numbers or raises TypeError depends on the version,
\* so both outcomes are admitted (numeric_ok chooses)
GroupingOf(df, factor_col, q, numeric_ok) ==
    IF factor_col = "group" /\ df.group_dtype = "category" /\ ~numeric_ok
    THEN [raised |-> "TypeError", df |-> df]
    ELSE daily_grouping(df, factor_col, q)

\* FactorAnalysis.calculate_daily_group_returns: returns the raised exception,
\* the shared table as left by the call, and the returned table
calculate_daily_group_returns(df, factor_col, holding_days, numeric_ok) ==
    LET returns_col == ReturnsCol(holding_days)
        have == returns_col \in Range(df.columns)
        df1  == IF have \/ "close" \notin Range(df.columns) THEN df
                ELSE [df EXCEPT
                        !.columns = Append(df.columns, returns_col),
                        !.rows = Let(PctChange100(df.rows, holding_days), LAMBDA pc :
                                     [i \in 1..Len(df.rows) |-> (returns_col :> pc[i]) @@ df.rows[i]])]
    IN  IF ~have /\ "close" \notin Range(df.columns)
        THEN [raised |-> "ValueError", df |-> df, out |-> NoTable]
        \* line 65: the grouping always uses the default q
        ELSE Let(GroupingOf(df1, factor_col, DefaultQ, numeric_ok), LAMBDA g :
                 IF g.raised # "none"
                 THEN [raised |-> g.raised, df |-> g.df, out |-> NoTable]
                 ELSE [raised |-> "none", df |-> g.df, out |-> GroupByMean(g.df, returns_col)])

\* the running product of the non-missing values of one group up to row i
RECURSIVE CumProd(_, _, _)
CumProd(rows, col, i) ==
    LET prev == {j \in 1..(i - 1) : rows[j]["group"] = rows[i]["group"] /\ ~IsNaN(rows[j][col])}
    IN  IF prev = {} THEN rows[i][col]
        ELSE RMul(CumProd(rows, col, CHOOSE j \in prev : \A o \in prev : o <= j), rows[i][col])

\* a running product taken over the whole table instead of per group
RECURSIVE RunProd(_, _, _)
RunProd(rows, col, k) ==
    IF k = 0 THEN Num(1)
    ELSE IF IsNaN(rows[k][col]) THEN RunProd(rows, col, k - 1)
    ELSE RMul(RunProd(rows, col, k - 1), rows[k][col])

GroupCumProd_Ungrouped(rows, col) ==
    [i \in 1..Len(rows) |-> IF IsNaN(rows[i][col]) THEN NaN ELSE RunProd(rows, col, i)]

\* groupby('group')[returns_col].cumprod(): NaN where the value is missing
GroupCumProd(rows, col) == [i \in 1..Len(rows) |-> CumProd(rows, col, i)]

\* groupby('group')['cumulative_returns'].transform(
\*     lambda x: x / x.iloc[0] if x.iloc[0] != 0 else x)
NormalizeByFirst(rows, cum) ==
    [i \in 1..Len(rows) |->
        LET first == cum[CHOOSE j \in 1..i :
                            /\ rows[j]["group"] = rows[i]["group"]
                            /\ \A o \in 1..(j - 1) : rows[o]["group"] # rows[i]["group"]]
        IN  IF first # Num(0) THEN RDiv(cum[i], first) ELSE cum[i]]

\* FactorAnalysis.calculate_cumulative_returns (the table is changed in place)
calculate_cumulative_returns(table, holding_days) ==
    LET returns_col == ReturnsCol(holding_days)
    IN  IF returns_col \notin Range(table.columns)
        THEN [raised |-> "KeyError", out |-> table]
        ELSE Let(GroupCumProd(table.rows, returns_col), LAMBDA cum :
             Let(NormalizeByFirst(table.rows, cum), LAMBDA norm :
                 [raised |-> "none",
                  out |-> [table EXCEPT
                             !.columns = IF "cumulative_returns" \in Range(table.columns)
                                         THEN table.columns
                                         ELSE Append(table.columns, "cumulative_returns"),
                             !.rows = [i \in 1..Len(table.rows) |->
                                         ("cumulative_returns" :> norm[i]) @@ table.rows[i]]]]))

\* FactorAnalysis.analyze_daily_group: the parameter q is accepted and not used
analyze_daily_group(df, factor_col, holding_days, q, numeric_ok) ==
    Let(calculate_daily_group_returns(df, factor_col, holding_days, numeric_ok), LAMBDA r1 :
        IF r1.raised # "none" THEN r1
        ELSE Let(calculate_cumulative_returns(r1.out, holding_days), LAMBDA r2 :
                 [raised |-> r2.raised, df |-> r1.df, out |-> r2.out]))

\* line 142: the columns analyze_all_factors takes for factors
NonFactorCols == {"date", "code", "returns_5d", "returns_1d"}

factor_cols(df) == SelectSeq(df.columns, LAMBDA col : col \notin NonFactorCols)

\* lines 145-146: analyze each column in turn; an exception ends the loop
RECURSIVE AnalyzeLoop(_, _, _, _)
AnalyzeLoop(st, cols, holding_days, numeric_ok) ==
    IF cols = << >> \/ st.raised # "none" THEN st
    ELSE Let(analyze_daily_group(st.df, cols[1], holding_days, DefaultQ, numeric_ok), LAMBDA r :
             AnalyzeLoop([raised |-> r.raised, df |-> r.df, out |-> r.out,
                          analyzed |-> Append(st.analyzed, cols[1])],
                         Tail(cols), holding_days, numeric_ok))

\* FactorAnalysis.analyze_all_factors
analyze_all_factors(df, holding_days, numeric_ok) ==
    AnalyzeLoop([raised |-> "none", df |-> df, out |-> NoTable, analyzed |-> << >>],
                factor_cols(df), holding_days, numeric_ok)

----------------------------------------------------------------------------
(* The analysis specification: a FactorAnalysis object built on the table a  *)
(* FactorCalculator run produced (one plugin column f, the forward returns, *)
(* date and code; rows stock by stock, each stock in date order)            *)

\* the holding periods the table was computed with, and those a caller analyses with
CalcHoldingDays == {1, 3}

HoldingDayChoices == {1, 3, 5}

RetVals == {Num(-1), Num(2)}

\* row i of the stock-by-stock grid
GridCode(i) == ((i - 1) \div Cardinality(Dates)) + 1

GridDate(i) == ((i - 1) % Cardinality(Dates)) + 1

GridSize == Cardinality(Stocks) * Cardinality(Dates)

\* five stocks with factor values 1..5 on two dates, one-day returns
TestPanel ==
    Frame(<<"f", "returns_1d", "date", "code">>,
          [i \in 1..10 |->
              ("f" :> Num(((i - 1) \div 2) + 1)) @@
              ("returns_1d" :> (IF i % 2 = 1 THEN Num(((i - 1) \div 2) + 1) ELSE NaN)) @@
              ("date" :> ((i - 1) % 2) + 1) @@ ("code" :> ((i - 1) \div 2) + 1)])

AnalysisInit ==
    /\ \/ \E h \in CalcHoldingDays :
            \E f \in [1..GridSize -> FactorVals \ {Num(MaxVal)}], r \in [1..GridSize -> RetVals \cup {NaN}] :
                \* the forward return of the last h dates of a stock is missing
                /\ \A i \in 1..GridSize :
                      IF GridDate(i) + h > Cardinality(Dates) THEN r[i] = NaN ELSE r[i] # NaN
                /\ factors_df = Frame(<<"f", ReturnsCol(h), "date", "code">>,
                                      [i \in 1..GridSize |->
                                          ("f" :> f[i]) @@ (ReturnsCol(h) :> r[i]) @@
                                          ("date" :> GridDate(i)) @@ ("code" :> GridCode(i))])
       \/ factors_df = TestPanel
    /\ fa_call = NoCall
    /\ fa_err = "none"
    /\ fa_out = NoTable
    /\ analyzed = << >>
    /\ CalcIdle

\* a caller invokes calculate_daily_group_returns(factor_col, holding_days)
CalculateDailyGroupReturns ==
    \E h \in HoldingDayChoices :
        \E r \in {calculate_daily_group_returns(factors_df, "f", h, TRUE)} :
            /\ factors_df' = r.df
            /\ fa_err' = r.raised
            /\ fa_out' = r.out
            /\ fa_call' = [op |-> "calculate_daily_group_returns", factor_col |-> "f",
                           holding_days |-> h, q |-> DefaultQ]
            /\ analyzed' = << >>
            /\ UNCHANGED calc_vars

\* a caller invokes analyze_daily_group(factor_col, holding_days, q)
AnalyzeDailyGroup ==
    \E h \in HoldingDayChoices, q \in QChoices :
        \E r \in {analyze_daily_group(factors_df, "f", h, q, TRUE)} :
            /\ factors_df' = r.df
            /\ fa_err' = r.raised
            /\ fa_out' = r.out
            /\ fa_call' = [op |-> "analyze_daily_group", factor_col |-> "f",
                           holding_days |-> h, q |-> q]
            /\ analyzed' = <<"f">>
            /\ UNCHANGED calc_vars

\* a caller invokes analyze_all_factors(holding_days)
AnalyzeAllFactors ==
    \E h \in HoldingDayChoices, numeric_ok \in BOOLEAN :
        \E r \in {analyze_all_factors(factors_df, h, numeric_ok)} :
            /\ factors_df' = r.df
            /\ fa_err' = r.raised
            /\ fa_out' = r.out
            /\ fa_call' = [op |-> "analyze_all_factors", factor_col |-> "",
                           holding_days |-> h, q |-> DefaultQ]
            /\ analyzed' = r.analyzed
            /\ UNCHANGED calc_vars

AnalysisNext == CalculateDailyGroupReturns \/ AnalyzeDailyGroup \/ AnalyzeAllFactors

SpecAnalysis == AnalysisInit /\ [][AnalysisNext]_vars

----------------------------------------------------------------------------
(* The cumulative-return specification: calculate_cumulative_returns applied *)
(* to a daily group-return table of two groups, in (date, group) order, all  *)
(* values defined                                                            *)

CumVals == {Num(v) : v \in (-1)..MaxRet}

CumGroups == {1, 2}

CumInit ==
    /\ \E n \in 1..MaxDays :
          \E r \in [1..(n * Cardinality(CumGroups)) -> CumVals] :
              fa_out = Frame(<<"date", "group", "returns_5d">>,
                             [k \in 1..(n * Cardinality(CumGroups)) |->
                                 [date |-> ((k - 1) \div Cardinality(CumGroups)) + 1,
                                  group |-> Num(((k - 1) % Cardinality(CumGroups)) + 1),
                                  returns_5d |-> r[k]]])
    /\ factors_df = NoTable
    /\ fa_call = NoCall
    /\ fa_err = "none"
    /\ analyzed = << >>
    /\ CalcIdle

\* a caller invokes calculate_cumulative_returns(daily_group_returns, holding_days)
CalculateCumulativeReturns ==
    \E h \in {1, DefaultHoldingDays} :
        \E r \in {calculate_cumulative_returns(fa_out, h)} :
            /\ fa_out' = r.out
            /\ fa_err' = r.raised
            /\ fa_call' = [op |-> "calculate_cumulative_returns", factor_col |-> "",
                           holding_days |-> h, q |-> 0]
            /\ UNCHANGED <<factors_df, analyzed>>
            /\ UNCHANGED calc_vars

CumNext == CalculateCumulativeReturns

SpecCum == CumInit /\ [][CumNext]_vars

----------------------------------------------------------------------------
(* Properties of daily_grouping, checked under SpecGroup *)

Grouped == fa_call.op = "daily_grouping"

\* the cross-section of date d is exactly q rows with pairwise distinct, non-missing values
DistinctFull(rows, d, col, q) ==
    LET x == SeriesOfDate(rows, d, col)
    IN  /\ Len(x) = q
        /\ NaN \notin Range(x)
        /\ Cardinality(Range(x)) = q

\* C1: after daily_grouping(factor_col, q) every row whose factor value is not
\* missing carries a group label, an integer in [1, q], whatever the shape of
\* its date's cross-section (and so the call ends without an exception).
C1_EveryRowGrouped ==
    Grouped =>
        /\ fa_err = "none"
        /\ \A i \in 1..Len(factors_df.rows) :
              ~IsNaN(factors_df.rows[i]["f"]) =>
                  GroupOf(factors_df.rows[i]) \in Labels(fa_call.q)

\* C2: after daily_grouping every row whose factor value is missing has no
\* group label, in every branch of the grouping.
C2_MissingRowsUngrouped ==
    (Grouped /\ fa_err = "none") =>
        \A i \in 1..Len(factors_df.rows) :
            IsNaN(factors_df.rows[i]["f"]) => IsNaN(GroupOf(factors_df.rows[i]))

\* C7: when a date's cross-section is exactly q rows with pairwise distinct,
\* non-missing values, daily_grouping with that q labels the row holding the
\* k-th smallest value with k, whatever the row order; such a date never makes
\* the call raise (the call raises only if some date of another shape exists).
C7_RankLabels ==
    Grouped =>
        LET rows == factors_df.rows
            q    == fa_call.q
            full(d) == DistinctFull(rows, d, "f", q)
        IN  /\ fa_err # "none" => \E d \in DatesOf(rows) : ~full(d)
            /\ fa_err = "none" =>
                  \A i \in 1..Len(rows) :
                      full(rows[i]["date"]) =>
                          GroupOf(rows[i]) =
                              Num(Cardinality({j \in 1..Len(rows) :
                                      /\ rows[j]["date"] = rows[i]["date"]
                                      /\ RLeq(rows[j]["f"], rows[i]["f"])}))

\* a grouped date of three distinct values that are not in ascending row order
C7_Witness ==
    /\ Grouped
    /\ fa_err = "none"
    /\ fa_call.q = 3
    /\ \E d \in DatesOf(factors_df.rows) :
          /\ DistinctFull(factors_df.rows, d, "f", 3)
          /\ LET x == SeriesOfDate(factors_df.rows, d, "f") IN RLess(x[3], x[1])
          /\ \A i \in 1..Len(factors_df.rows) :
                factors_df.rows[i]["date"] = d => ~IsNaN(GroupOf(factors_df.rows[i]))

----------------------------------------------------------------------------
(* Properties of the group-return tables, checked under SpecAnalysis *)

\* the sum of a column over a set of row positions
SumOver(rows, col, S) ==
    Let(SetToSeq(S), LAMBDA idx : SumSeq([j \in 1..Len(idx) |-> rows[idx[j]][col]]))

\* C3: the table calculate_daily_group_returns returns has exactly one record
\* for each (date, group) that has a member with a defined forward return, its
\* value the mean of those returns, and no record for any other (date, group).
C3_GroupReturnRecords ==
    (fa_call.op = "calculate_daily_group_returns" /\ fa_err = "none") =>
        LET rows == factors_df.rows
            col  == ReturnsCol(fa_call.holding_days)
            recs == fa_out.rows
            defined(d, g) == {i \in 1..Len(rows) :
                                /\ rows[i]["date"] = d
                                /\ GroupOf(rows[i]) = g
                                /\ ~IsNaN(rows[i][col])}
        IN  /\ \A k \in 1..Len(recs) :
                  LET m == defined(recs[k]["date"], recs[k]["group"])
                  IN  /\ m # {}
                      /\ RMul(recs[k][col], Num(Cardinality(m))) = SumOver(rows, col, m)
            /\ \A i \in 1..Len(rows) :
                  (~IsNaN(GroupOf(rows[i])) /\ ~IsNaN(rows[i][col])) =>
                      Cardinality({k \in 1..Len(recs) :
                                      /\ recs[k]["date"] = rows[i]["date"]
                                      /\ recs[k]["group"] = rows[i]["group"]}) = 1

\* C9: every group label in the records analyze_daily_group(factor_col,
\* holding_days, q) computes lies in [1, q] for the q that was passed.
C9_LabelsWithinPassedQ ==
    (fa_call.op = "analyze_daily_group" /\ fa_err = "none") =>
        \A k \in 1..Len(fa_out.rows) : fa_out.rows[k]["group"] \in Labels(fa_call.q)

\* the columns the plugins produced
PluginCols == {"f"}

\* C10: after any sequence of earlier calls, analyze_all_factors analyzes
\* exactly the plugin-produced columns: never date, code, a forward-return
\* column returns_{H}d or the group column.
C10_OnlyPluginColumns ==
    fa_call.op = "analyze_all_factors" =>
        /\ Range(analyzed) \subseteq PluginCols
        /\ fa_err = "none" => Range(analyzed) = PluginCols

----------------------------------------------------------------------------
(* Properties of calculate_cumulative_returns, checked under SpecCum *)

RECURSIVE ProdSeq(_)
ProdSeq(s) == IF s = << >> THEN Num(1) ELSE RMul(ProdSeq(SubSeq(s, 1, Len(s) - 1)), s[Len(s)])

\* C5: for every group, with its values r_1..r_n in table (ascending date)
\* order, the cumulative value at position k is (r_1 * ... * r_k) / r_1 when
\* r_1 # 0 and the plain running product r_1 * ... * r_k when r_1 = 0; the
\* factors are the raw values and only the group's own values enter.
C5_CumulativeSeries ==
    (fa_call.op = "calculate_cumulative_returns" /\ fa_err = "none") =>
        LET rows == fa_out.rows
            col  == ReturnsCol(fa_call.holding_days)
        IN  \A g \in CumGroups :
                LET idx == SetToSeq({i \in 1..Len(rows) : rows[i]["group"] = Num(g)})
                    r   == [k \in 1..Len(idx) |-> rows[idx[k]][col]]
                IN  \A k \in 1..Len(idx) :
                        rows[idx[k]]["cumulative_returns"] =
                            IF r[1] # Num(0)
                            THEN RDiv(ProdSeq(SubSeq(r, 1, k)), r[1])
                            ELSE ProdSeq(SubSeq(r, 1, k))

\* one group starts at 0 and stays [0, 0, 0]; the other starts at -1 and is rescaled to start at 1
C5_Witness ==
    /\ fa_call.op = "calculate_cumulative_returns"
    /\ fa_err = "none"
    /\ Len(fa_out.rows) = 6
    /\ fa_out.rows[1]["returns_5d"] = Num(0)
    /\ fa_out.rows[3]["returns_5d"] = Num(1)
    /\ \A k \in {1, 3, 5} : fa_out.rows[k]["cumulative_returns"] = Num(0)
    /\ fa_out.rows[2]["returns_5d"] = Num(-1)
    /\ fa_out.rows[2]["cumulative_returns"] = Num(1)
    /\ fa_out.rows[4]["returns_5d"] = Num(-1)
    /\ fa_out.rows[4]["cumulative_returns"] = Num(-1)

----------------------------------------------------------------------------
(* Properties of FactorCalculator.calculate_factors *)

\* the raw panel row a per-stock row came from (its index label is the panel position - 1)
Orig(sd, i) == self_data.rows[sd.index[i] + 1]

\* the position in a per-stock frame of its most recent date
Latest(sd) == CHOOSE m \in 1..Len(sd.rows) :
                  \A i \in 1..Len(sd.rows) : sd.rows[i]["date"] <= sd.rows[m]["date"]

\* C4: with adjustment on, every price of a stock's row is its raw price
\* times adj_factor(row) / adj_factor(row of the stock's most recent date),
\* whatever the order of the rows, and the volume is the raw volume.
C4_AdjustedToLatestDate ==
    self_adjust_price =>
        \A k \in 1..Len(stock_frames) :
            LET sd == stock_frames[k] IN
            \A i \in 1..Len(sd.rows) :
                /\ \A c \in {"open", "close"} :
                      RMul(sd.rows[i][c], sd.rows[Latest(sd)]["adj_factor"])
                          = RMul(Orig(sd, i)[c], sd.rows[i]["adj_factor"])
                /\ sd.rows[i]["volume"] = Orig(sd, i)["volume"]

\* the close the returns are computed from: the raw close, adjusted to the
\* stock's last row when adjustment is on
CloseUsed(sd, i) ==
    IF self_adjust_price
    THEN RDiv(RMul(Orig(sd, i)["close"], sd.rows[i]["adj_factor"]),
              sd.rows[Len(sd.rows)]["adj_factor"])
    ELSE Orig(sd, i)["close"]

\* C6: for a stock with n rows in ascending date order and holding period H,
\* the return of the row at position t (counted from 0) is defined exactly
\* when t + H <= n - 1 and then equals (close[t+H] - close[t]) / close[t] over
\* that stock's own closes; the last min(H, n) rows are missing, never 0; the
\* stock's factor table carries the same value on the same (date, code) row.
C6_ForwardReturns ==
    \A k \in 1..Len(stock_frames) :
        LET sd  == stock_frames[k]
            fr  == factors_all_stocks[k]
            n   == Len(sd.rows)
            H   == self_holding_days
            col == ReturnsCol(H)
            own == {i \in 1..Len(self_data.rows) : self_data.rows[i]["code"] = sd.rows[1]["code"]}
        IN  /\ {sd.index[i] + 1 : i \in 1..n} = own
            /\ n = Cardinality(own)
            /\ \A i \in 1..(n - 1) : sd.rows[i]["date"] < sd.rows[i + 1]["date"]
            /\ \A t \in 0..(n - 1) :
                  IF t + H <= n - 1
                  THEN /\ ~IsNaN(sd.rows[t + 1][col])
                       /\ sd.rows[t + 1][col] =
                             RDiv(RSub(CloseUsed(sd, t + H + 1), CloseUsed(sd, t + 1)),
                                  CloseUsed(sd, t + 1))
                  ELSE IsNaN(sd.rows[t + 1][col])
            /\ Len(fr.rows) = n
            /\ \A i \in 1..n :
                  /\ fr.rows[i][col] = sd.rows[i][col]
                  /\ fr.rows[i]["date"] = sd.rows[i]["date"]
                  /\ fr.rows[i]["code"] = sd.rows[i]["code"]

\* the run finished on a panel whose rows interleave two stocks: the first
\* stock owns panel rows 1 and 3, its first return (H = 1) is (2 - 1) / 1 = 1
\* over its own closes and its last return is missing
C6_Witness ==
    /\ calc_pc = "done"
    /\ self_holding_days = 1
    /\ ~self_adjust_price
    /\ Len(stock_frames) = 2
    /\ stock_frames[1].index = <<0, 2>>
    /\ self_data.rows[1]["close"] = Num(1)
    /\ self_data.rows[2]["close"] = Num(1)
    /\ self_data.rows[3]["close"] = Num(2)
    /\ stock_frames[1].rows[1]["returns_1d"] = Num(1)
    /\ IsNaN(stock_frames[1].rows[2]["returns_1d"])
    /\ IsNaN(calc_result.rows[2]["returns_1d"])

\* a discovered plugin that does not conform: no calculate_factor, or a result
\* whose length is not the stock's row count
BadPlugin(k) == plugins[k].kind \in {"no_entry", "short", "long_list"}

\* C8: when any discovered plugin lacks calculate_factor or returns a sequence
\* of another length than the stock's rows, the run fails with an error: no
\* stock's factor table is produced and no result is returned.
C8_BadPluginFails ==
    (\E k \in 1..Len(plugins) : BadPlugin(k)) =>
        /\ factors_all_stocks = << >>
        /\ calc_pc # "done"
        /\ calc_result = EmptyFrame

====
